---- MODULE Spec2Model ----
(***************************************************************************)
(* NearbyTix ticket inventory and reservation lifecycle.                   *)
(*                                                                         *)
(* The database is PostgreSQL at its default isolation level (READ         *)
(* COMMITTED): a transaction's writes become visible at COMMIT, SELECT ... *)
(* FOR UPDATE and UPDATE take an exclusive row lock that is held until the *)
(* transaction ends, a statement that waited for a row lock then works on  *)
(* the newest committed version of the row, and a plain SELECT neither     *)
(* takes nor waits for a row lock.                                         *)
(*                                                                         *)
(* Every operation runs in a process of its own (an API request, a Celery  *)
(* worker running the one-shot task, a Celery worker running the sweep).   *)
(***************************************************************************)
EXTENDS Integers, FiniteSets, Sequences, TLC

\* ---------------------------------------------------------------- bounds
MaxTickets == 2          \* ticket rows that can ever be created
MaxTicks == 2            \* number of clock advances

\* ------------------------------------------------------ program constants
TICKET_EXPIRATION_TIME == 120      \* seconds
BATCH_LIMIT == 100                 \* .limit(100) of the sweep's select

\* ------------------------------------------------------------- universes
Events == {"e1"}
EventOrder == <<"e1">>              \* iteration order of a set of event ids
Users == {"u1", "u2"}
NoEvent == "e_missing"             \* a well-formed id that names no event
NoUser == "u_missing"              \* a well-formed id that names no user
TicketIds == 1..MaxTickets
MaxTotal == MaxTickets             \* largest capacity given to an event
NoTicket == 0
NoProc == "none"
NoTime == -1                       \* NULL timestamp
NoTask == 0                        \* NULL expiration_task_id
\* no Event object in the session
NoObject == [total_tickets |-> 0, tickets_sold |-> 0]

Reservers == {"r1", "r2", "r3"}     \* callers of TicketService.reserve_ticket
Payers == {"p1"}                   \* callers of TicketService.mark_ticket_paid
Expirers == {"x1", "x2"}           \* workers running expire_ticket_task
Sweepers == {"s1", "s2"}           \* workers running cleanup_expired_tickets
ApiProcs == {"a1"}                 \* requests to POST /tickets/
DoublePayers == {"p1", "p2"}       \* two requests paying at the same time
Procs == Reservers \cup Payers \cup DoublePayers \cup Expirers \cup Sweepers \cup ApiProcs

\* the user a request process acts for
UserOf(p) == IF p = "r3" THEN "u2" ELSE "u1"

\* TicketStatus; ABSENT stands for "no such row"
RESERVED == "reserved"
PAID == "paid"
EXPIRED == "expired"
ABSENT == "absent"

VARIABLES
    now,                 \* the wall clock, in seconds
    CELERY_AVAILABLE,    \* whether app.tasks.ticket_tasks could be imported
    once,                \* TRUE when every process makes a single call and stops
    revoked,             \* the task ids cancel_expiration_task was sent for
    amount,              \* the amount argument of the last counter call
    request,             \* per one-shot task: its ticket, the countdowns of its
                         \* retries so far, whether it has given up
    loaded,              \* per API request: the Event object its session holds
    total_tickets,       \* events.total_tickets, committed
    tickets_sold,        \* events.tickets_sold, committed
    tickets,             \* the tickets table, committed
    eventLock,           \* row lock on an events row: holder or NoProc
    ticketLock,          \* row lock on a tickets row: holder or NoProc
    pc,                  \* position of each process in its operation
    tid,                 \* ticket an operation works on
    eid,                 \* event a reservation is for
    uid,                 \* user a reservation is for
    stamp,               \* timestamp computed by the operation (expires_at / paid_at)
    batch,               \* expired_tickets of a sweep run
    last,                \* the operation that ended last: outcome and expired_count
    paidN,               \* history: commits that wrote status = paid, per ticket
    oneShotN,            \* history: one-shot commits that expired the ticket and decremented
    sweepN               \* history: sweep commits that expired the ticket and decremented

vars == <<now, CELERY_AVAILABLE, once, revoked, amount, request, loaded, total_tickets, tickets_sold, tickets, eventLock,
          ticketLock, pc, tid, eid, uid, stamp, batch, last,
          paidN, oneShotN, sweepN>>

dbVars == <<total_tickets, tickets_sold, tickets>>
histVars == <<paidN, oneShotN, sweepN>>

\* --------------------------------------------------------------- helpers
Max(a, b) == IF a >= b THEN a ELSE b
Min(a, b) == IF a <= b THEN a ELSE b

NoRow == [status |-> ABSENT, event_id |-> NoEvent, user_id |-> NoUser,
          expires_at |-> NoTime, paid_at |-> NoTime, expiration_task_id |-> NoTask]

\* (mutation: the ticket is inserted without its user)
NewTicket_unowned(u, e, exp) ==
    [status |-> RESERVED, event_id |-> e, user_id |-> NoUser,
     expires_at |-> exp, paid_at |-> NoTime, expiration_task_id |-> NoTask]

\* (mutation: the INSERT of the ticket is lost)
NewTicket_lost(u, e, exp) == NoRow

\* Ticket(...) as TicketRepository.create inserts it
NewTicket(u, e, exp) ==
    [status |-> RESERVED, event_id |-> e, user_id |-> u,
     expires_at |-> exp, paid_at |-> NoTime, expiration_task_id |-> NoTask]

\* uuid4 primary key of a new row: an id no row uses
FreshIds == {t \in TicketIds : tickets[t].status = ABSENT}
FreshId == CHOOSE t \in FreshIds : \A u \in FreshIds : t <= u

\* (mutation: the availability check is left out)
is_sold_out_never(sold, total) == FALSE

\* (mutation: the availability check off by one)
is_sold_out_off_by_one(sold, total) == sold > total

\* Event.is_sold_out / step 4 of reserve_ticket
is_sold_out(sold, total) == sold >= total

\* (mutation: the payment path never regards a ticket as expired)
is_expired_never(row, t_now) == FALSE

\* (mutation: the expiry instant itself already counts as expired)
is_expired_inclusive(row, t_now) ==
    IF row.status # RESERVED \/ row.expires_at = NoTime
    THEN FALSE
    ELSE t_now >= row.expires_at

\* Ticket.is_expired
is_expired(row, t_now) ==
    IF row.status # RESERVED \/ row.expires_at = NoTime
    THEN FALSE
    ELSE t_now > row.expires_at

\* (mutation: the one-shot task does not look at expires_at)
not_yet_expired_dropped(row, t_now) == FALSE

\* "Check if actually expired" of the one-shot task
not_yet_expired(row, t_now) == row.expires_at # NoTime /\ t_now < row.expires_at

\* (mutation: the floor at 0 is dropped)
decrement_unclamped(sold, n) == sold - n

\* (mutation: the expiration leaves the counter alone)
decrement_skipped(sold, n) == sold

\* max(0, event.tickets_sold - n)
decrement(sold, n) == Max(0, sold - n)

\* event.tickets_sold += amount
increment(sold, n) == sold + n

\* the CHECK constraints of the events table, evaluated when a row is written
check_constraints(sold, total) == total > 0 /\ sold >= 0 /\ sold <= total

\* (mutation: the sweep's query takes expires_at <= now)
find_expired_inclusive(t_now) ==
    {t \in TicketIds : /\ tickets[t].status = RESERVED
                       /\ tickets[t].expires_at # NoTime
                       /\ tickets[t].expires_at <= t_now}

\* the sweep's query: reserved, expires_at not NULL, expires_at < now
find_expired(t_now) ==
    {t \in TicketIds : /\ tickets[t].status = RESERVED
                       /\ tickets[t].expires_at # NoTime
                       /\ tickets[t].expires_at < t_now}

\* .limit(n): any n rows of the result when it has more than n
Limit(S, n) == {B \in SUBSET S : Cardinality(B) = Min(Cardinality(S), n)}

\* event_ids = set(ticket.event_id for ticket in expired_tickets)
event_ids(B) == {tickets[t].event_id : t \in B}
\* tickets_to_expire for one event
tickets_to_expire(B, e) == Cardinality({t \in B : tickets[t].event_id = e})

HeldEvents(p) == {e \in Events : eventLock[e] = p}
HeldTickets(p) == {t \in TicketIds : ticketLock[t] = p}

\* (mutation: the end of a transaction leaves its event locks in place)
ReleaseEvents_kept(p) == eventLock

\* ROLLBACK / COMMIT / session close: every row lock of the transaction goes
ReleaseEvents(p) == [e \in Events |-> IF eventLock[e] = p THEN NoProc ELSE eventLock[e]]
ReleaseTickets(p) == [t \in TicketIds |-> IF ticketLock[t] = p THEN NoProc ELSE ticketLock[t]]

\* the operation of p ends with outcome r (and, for a sweep, expired_count n);
\* its locals are forgotten.  A process that makes a single call stays at its
\* outcome, any other is ready for its next call.
FinishN(p, r, n) ==
    /\ pc' = [pc EXCEPT ![p] = IF once THEN r ELSE "idle"]
    /\ last' = [status |-> r, expired_count |-> n]
    /\ tid' = [tid EXCEPT ![p] = NoTicket]
    /\ eid' = [eid EXCEPT ![p] = NoEvent]
    /\ uid' = [uid EXCEPT ![p] = NoUser]
    /\ stamp' = [stamp EXCEPT ![p] = NoTime]
    /\ batch' = [batch EXCEPT ![p] = {}]

Finish(p, r) == FinishN(p, r, 0)

\* ------------------------------------------------------------------ Init
InitCommon ==
    /\ now = 0
    /\ total_tickets \in [Events -> 1..MaxTotal]
    /\ tickets_sold = [e \in Events |-> 0]
    /\ tickets = [t \in TicketIds |-> NoRow]
    /\ revoked = {}
    /\ amount = 1
    /\ loaded = [p \in ApiProcs |-> NoObject]
    /\ request = [p \in Expirers |-> [ticket_id |-> NoTicket, delays |-> <<>>, failed |-> FALSE]]
    /\ eventLock = [e \in Events |-> NoProc]
    /\ ticketLock = [t \in TicketIds |-> NoProc]
    /\ pc = [p \in Procs |-> "idle"]
    /\ tid = [p \in Procs |-> NoTicket]
    /\ eid = [p \in Procs |-> NoEvent]
    /\ uid = [p \in Procs |-> NoUser]
    /\ stamp = [p \in Procs |-> NoTime]
    /\ batch = [p \in Procs |-> {}]
    /\ last = [status |-> "none", expired_count |-> 0]
    /\ paidN = [t \in TicketIds |-> 0]
    /\ oneShotN = [t \in TicketIds |-> 0]
    /\ sweepN = [t \in TicketIds |-> 0]

Init == InitCommon /\ CELERY_AVAILABLE = TRUE /\ once = FALSE

\* ----------------------------------------------------------------- clock
\* The clock moves in steps of one reservation window, so that every ticket
\* is seen before, at and after its expires_at.
Tick ==
    /\ now < MaxTicks * TICKET_EXPIRATION_TIME
    /\ now' = now + TICKET_EXPIRATION_TIME
    /\ UNCHANGED <<CELERY_AVAILABLE, once, revoked, amount, request, loaded, dbVars, eventLock, ticketLock, pc, tid, eid, uid,
                   stamp, batch, last, histVars>>


\* what an operation leaves alone
Env == <<now, CELERY_AVAILABLE, once, revoked, amount, request, loaded>>

\* ------------------------------------------- TicketService.reserve_ticket
\* (mutation: the event is read without FOR UPDATE)
reserve_without_lock(e) == TRUE

\* select(Event).with_for_update(): returns once no other transaction holds
\* the row
reserve_can_lock(e) == eventLock[e] = NoProc

\* Steps 1-5: SELECT the event FOR UPDATE (waits while another transaction
\* holds the row), then the checks on the freshly read row and expires_at.
\* A raised exception ends the request; closing the session rolls back.
reserve_ticket_begin(p, u, e) ==
    /\ pc[p] = "idle"
    /\ IF e \notin Events
       THEN /\ Finish(p, "EventNotFound")
            /\ UNCHANGED eventLock
       ELSE /\ reserve_can_lock(e)
            /\ IF u \notin Users
               THEN /\ Finish(p, "UserNotFound")
                    /\ UNCHANGED eventLock
               ELSE IF is_sold_out(tickets_sold[e], total_tickets[e])
               THEN /\ Finish(p, "EventSoldOut")
                    /\ UNCHANGED eventLock
               ELSE /\ FreshIds # {}
                    /\ eventLock' = [eventLock EXCEPT ![e] = p]
                    /\ pc' = [pc EXCEPT ![p] = "r_commit"]
                    /\ eid' = [eid EXCEPT ![p] = e]
                    /\ uid' = [uid EXCEPT ![p] = u]
                    /\ stamp' = [stamp EXCEPT ![p] = now + TICKET_EXPIRATION_TIME]
                    /\ UNCHANGED <<tid, batch, last>>
    /\ UNCHANGED <<Env, dbVars, ticketLock, histVars>>

\* Steps 6-8: INSERT the ticket, tickets_sold += 1, COMMIT.  The events row
\* is written under its CHECK constraints; a violation aborts the transaction.
reserve_ticket_commit(p) ==
    /\ pc[p] = "r_commit"
    /\ LET e == eid[p]
           t == FreshId
           sold == tickets_sold[e] + 1
       IN  IF check_constraints(sold, total_tickets[e])
           THEN /\ tickets' = [tickets EXCEPT ![t] = NewTicket(uid[p], e, stamp[p])]
                /\ tickets_sold' = [tickets_sold EXCEPT ![e] = sold]
                /\ IF CELERY_AVAILABLE
                   THEN /\ pc' = [pc EXCEPT ![p] = "r_sched"]
                        /\ tid' = [tid EXCEPT ![p] = t]
                        /\ UNCHANGED <<eid, uid, stamp, batch, last>>
                   ELSE Finish(p, "reserved")
           ELSE /\ Finish(p, "IntegrityError")
                /\ UNCHANGED <<tickets, tickets_sold>>
    /\ eventLock' = ReleaseEvents(p)
    /\ UNCHANGED <<Env, total_tickets, ticketLock, histVars>>

\* (mutation: the follow-up writes the whole ticket as the session holds it)
store_handle_whole_row(row, task_id) ==
    [row EXCEPT !.status = RESERVED, !.paid_at = NoTime, !.expiration_task_id = task_id]

\* "ticket.expiration_task_id = task.id": the one changed attribute, so
\* the UPDATE sets that column of the row as it stands
store_handle(row, task_id) == [row EXCEPT !.expiration_task_id = task_id]

\* Step 8 (second): apply_async, then UPDATE tickets SET expiration_task_id
\* and COMMIT.  The UPDATE waits for the ticket's row lock.
reserve_ticket_schedule(p) ==
    /\ pc[p] = "r_sched"
    /\ ticketLock[tid[p]] = NoProc
    /\ tickets' = [tickets EXCEPT ![tid[p]] = store_handle(@, tid[p])]
    /\ Finish(p, "reserved")
    /\ UNCHANGED <<Env, total_tickets, tickets_sold, eventLock, ticketLock, histVars>>

\* Step 8 when the broker cannot be reached: apply_async raises (kombu's
\* OperationalError once its connection retries are used up).  The call is
\* not inside a try, so the exception leaves reserve_ticket; the first
\* commit stands and expiration_task_id stays NULL.
reserve_ticket_schedule_raises(p) ==
    /\ pc[p] = "r_sched"
    /\ Finish(p, "OperationalError")
    /\ UNCHANGED <<Env, dbVars, eventLock, ticketLock, histVars>>

\* --------------------------------------- POST /tickets/ (api/tickets.py)
\* positional arguments the route passes to service.reserve_ticket, and the
\* parameters the method takes after self
ROUTE_ARGS == 1
RESERVE_PARAMS == 2

\* Python binds the arguments before the body of the method runs
binds(nargs, nparams) == nargs = nparams

\* the except clauses of the route, and 201 for a returned ticket
reserve_http_status(outcome) ==
    CASE outcome = "reserved" -> 201
      [] outcome = "EventNotFound" -> 404
      [] outcome = "UserNotFound" -> 404
      [] outcome = "EventSoldOut" -> 409
      [] OTHER -> 500

\* the route handler: "ticket = await service.reserve_ticket(reservation_data)"
\* inside try / except Exception.  The call raises TypeError before the
\* method body runs; were the arguments bound, the request would go on as a
\* call of the service method.
api_reserve_ticket(p, u, e) ==
    /\ pc[p] = "idle"
    /\ IF binds(ROUTE_ARGS, RESERVE_PARAMS)
       THEN reserve_ticket_begin(p, u, e)
       ELSE /\ Finish(p, "TypeError")
            /\ UNCHANGED <<Env, dbVars, eventLock, ticketLock, histVars>>

\* ----------------------------------------- TicketService.mark_ticket_paid
\* TicketRepository.get_by_id_for_update: returns once no other transaction
\* holds the row
get_by_id_for_update(t) == ticketLock[t] = NoProc

\* (mutation: the status check lets every ticket through)
pay_status_any(row) == TRUE

\* "Check current status" of mark_ticket_paid
pay_status_ok(row) == row.status = RESERVED

\* get_by_id_for_update, the status check, the expiry check, paid_at.
mark_ticket_paid_begin(p, t) ==
    /\ pc[p] = "idle"
    /\ IF tickets[t].status = ABSENT
       THEN /\ Finish(p, "TicketNotFound")
            /\ UNCHANGED ticketLock
       ELSE /\ get_by_id_for_update(t)
            /\ IF ~pay_status_ok(tickets[t])
               THEN /\ Finish(p, "InvalidStatusTransition")
                    /\ UNCHANGED ticketLock
               ELSE IF is_expired(tickets[t], now)
               THEN /\ Finish(p, "TicketExpired")
                    /\ UNCHANGED ticketLock
               ELSE /\ ticketLock' = [ticketLock EXCEPT ![t] = p]
                    /\ pc' = [pc EXCEPT ![p] = "p_commit"]
                    /\ tid' = [tid EXCEPT ![p] = t]
                    /\ stamp' = [stamp EXCEPT ![p] = now]
                    /\ UNCHANGED <<eid, uid, batch, last>>
    /\ UNCHANGED <<Env, dbVars, eventLock, histVars>>

\* (mutation: the status update also clears the reservation window)
update_status_clearing(row, new_status, at) ==
    [row EXCEPT !.status = new_status, !.paid_at = at, !.expires_at = NoTime]

\* TicketRepository.update_status: status, and paid_at when one is given
update_status(row, new_status, at) ==
    IF at # NoTime
    THEN [row EXCEPT !.status = new_status, !.paid_at = at]
    ELSE [row EXCEPT !.status = new_status]

\* the except clauses of POST /tickets/{ticket_id}/pay, and 200 for a
\* returned ticket
pay_http_status(outcome) ==
    CASE outcome = "paid" -> 200
      [] outcome = "TicketNotFound" -> 404
      [] outcome = "InvalidStatusTransition" -> 409
      [] outcome = "TicketExpired" -> 410
      [] OTHER -> 500

\* the route handler pay_for_ticket: "await service.mark_ticket_paid(ticket_id)".
\* The route has no authentication dependency and the service method takes
\* the ticket id only: who the caller is reaches neither.
pay_for_ticket(p, caller, t) == mark_ticket_paid_begin(p, t)

\* cancel_expiration_task(task_id): control.revoke(task_id, terminate=True)
\* asks the workers to drop the task; nothing waits for an answer and the
\* ticket is not touched.
cancel_expiration_task(task_id) == revoked \cup {task_id}

\* "if CELERY_AVAILABLE and ticket.expiration_task_id:
\*      cancel_expiration_task.delay(ticket.expiration_task_id)"
cancel_if_scheduled(row) ==
    IF CELERY_AVAILABLE /\ row.expiration_task_id # NoTask
    THEN cancel_expiration_task(row.expiration_task_id)
    ELSE revoked

\* update_status(PAID, paid_at) and COMMIT, then the cancellation
mark_ticket_paid_commit(p) ==
    /\ pc[p] = "p_commit"
    /\ LET t == tid[p]
       IN  /\ tickets' = [tickets EXCEPT ![t] = update_status(tickets[t], PAID, stamp[p])]
           /\ paidN' = [paidN EXCEPT ![t] = @ + 1]
           /\ revoked' = cancel_if_scheduled(tickets[t])
    /\ ticketLock' = ReleaseTickets(p)
    /\ Finish(p, "paid")
    /\ UNCHANGED <<now, CELERY_AVAILABLE, once, amount, request, loaded, total_tickets,
                   tickets_sold,
                   eventLock, oneShotN, sweepN>>

\* ------------------------------------------------- _expire_ticket_async
\* (mutation: the ticket is read without FOR UPDATE)
expire_without_lock(t) == TRUE

\* select(Ticket).with_for_update() of the one-shot task
expire_can_lock(t) == ticketLock[t] = NoProc

\* (mutation: the result of the SELECT is taken to be a ticket always)
ticket_found_always(row) == TRUE

\* "if not ticket": scalar_one_or_none() gave a row
ticket_found(row) == row.status # ABSENT

\* (mutation: the guard lets a paid ticket through)
still_reserved_or_paid(row) == row.status \in {RESERVED, PAID}

\* (mutation: the guard skips only tickets that are already expired)
still_reserved_unless_expired(row) == row.status # EXPIRED

\* "Only expire if still reserved"
still_reserved(row) == row.status = RESERVED

\* SELECT the ticket FOR UPDATE, then the status and expiry guards.
expire_ticket_begin(p, t) ==
    /\ pc[p] = "idle"
    /\ IF ~ticket_found(tickets[t])
       THEN /\ Finish(p, "not_found")
            /\ UNCHANGED ticketLock
       ELSE /\ expire_can_lock(t)
            /\ IF ~still_reserved(tickets[t])
               THEN /\ Finish(p, "skipped")
                    /\ UNCHANGED ticketLock
               ELSE IF not_yet_expired(tickets[t], now)
               THEN /\ Finish(p, "not_yet_expired")
                    /\ UNCHANGED ticketLock
               ELSE /\ ticketLock' = [ticketLock EXCEPT ![t] = p]
                    /\ pc' = [pc EXCEPT ![p] = "x_event"]
                    /\ tid' = [tid EXCEPT ![p] = t]
                    /\ UNCHANGED <<eid, uid, stamp, batch, last>>
    /\ UNCHANGED <<Env, dbVars, eventLock, histVars>>

\* SELECT the event FOR UPDATE (waits), tickets_sold = max(0, sold - 1),
\* status = EXPIRED, COMMIT.
expire_ticket_commit(p) ==
    /\ pc[p] = "x_event"
    /\ LET t == tid[p]
           e == tickets[t].event_id
           sold == decrement(tickets_sold[e], 1)
       IN  /\ eventLock[e] = NoProc
           /\ IF check_constraints(sold, total_tickets[e])
              THEN /\ tickets_sold' = [tickets_sold EXCEPT ![e] = sold]
                   /\ tickets' = [tickets EXCEPT ![t].status = EXPIRED]
                   /\ oneShotN' = [oneShotN EXCEPT ![t] = @ + 1]
                   /\ Finish(p, "expired")
              ELSE /\ Finish(p, "error")
                   /\ UNCHANGED <<tickets_sold, tickets, oneShotN>>
    /\ ticketLock' = ReleaseTickets(p)
    /\ UNCHANGED <<Env, total_tickets, eventLock, paidN, sweepN>>


\* --------------------------------------- _cleanup_expired_tickets_async
\* the plain SELECT of the reserved tickets whose expires_at < now
cleanup_select(p) ==
    /\ pc[p] = "idle"
    /\ \E B \in Limit(find_expired(now), BATCH_LIMIT) :
          IF B = {}
          THEN FinishN(p, "success", 0)
          ELSE /\ pc' = [pc EXCEPT ![p] = "s_events"]
               /\ batch' = [batch EXCEPT ![p] = B]
               /\ UNCHANGED <<tid, eid, uid, stamp, last>>
    /\ UNCHANGED <<Env, dbVars, eventLock, ticketLock, histVars>>

\* the event the loop "for event_id in event_ids" is at
NextEvent(p) ==
    LET todo == event_ids(batch[p]) \ HeldEvents(p)
        i == CHOOSE i \in 1..Len(EventOrder) :
                 /\ EventOrder[i] \in todo
                 /\ \A j \in 1..(i - 1) : EventOrder[j] \notin todo
    IN  EventOrder[i]

\* one iteration of the loop: SELECT the event FOR UPDATE (waits) and set
\* tickets_sold = max(0, sold - tickets_to_expire) on the locked row; the
\* UPDATE itself is sent with the flush at commit
cleanup_lock_event(p) ==
    /\ pc[p] = "s_events"
    /\ LET e == NextEvent(p)
       IN  /\ eventLock[e] = NoProc
           /\ eventLock' = [eventLock EXCEPT ![e] = p]
           /\ pc' = [pc EXCEPT ![p] =
                  IF event_ids(batch[p]) \ HeldEvents(p) = {e} THEN "s_flush" ELSE "s_events"]
    /\ UNCHANGED <<Env, dbVars, ticketLock, tid, eid, uid, stamp, batch, last, histVars>>

\* the ticket whose UPDATE the flush is at (rows are flushed in key order)
NextTicket(p) ==
    LET todo == batch[p] \ HeldTickets(p)
    IN  CHOOSE t \in todo : \A u \in todo : t <= u

\* db.commit(): the flush sends UPDATE tickets SET status = 'expired' WHERE
\* id = ... for every ticket of the batch; each waits for the row lock and
\* then writes the newest version of the row whatever its status is.  After
\* the last one the transaction commits.
cleanup_flush(p) ==
    /\ pc[p] = "s_flush"
    /\ LET t == NextTicket(p)
           B == batch[p]
           sold == [e \in Events |->
                      IF e \in event_ids(B)
                      THEN decrement(tickets_sold[e], tickets_to_expire(B, e))
                      ELSE tickets_sold[e]]
       IN  /\ ticketLock[t] = NoProc
           /\ IF B \ HeldTickets(p) # {t}
              THEN /\ ticketLock' = [ticketLock EXCEPT ![t] = p]
                   /\ UNCHANGED <<dbVars, eventLock, pc, tid, eid, uid, stamp, batch,
                                  last, histVars>>
              ELSE /\ ticketLock' = ReleaseTickets(p)
                   /\ eventLock' = ReleaseEvents(p)
                   /\ UNCHANGED <<total_tickets, paidN, oneShotN>>
                   /\ IF \A e \in Events : check_constraints(sold[e], total_tickets[e])
                      THEN /\ tickets_sold' = sold
                           /\ tickets' = [u \in TicketIds |->
                                 IF u \in B THEN [tickets[u] EXCEPT !.status = EXPIRED]
                                 ELSE tickets[u]]
                           /\ sweepN' = [u \in TicketIds |->
                                 IF u \in B THEN sweepN[u] + 1 ELSE sweepN[u]]
                           /\ FinishN(p, "success", Cardinality(B))
                      ELSE /\ Finish(p, "error")
                           /\ UNCHANGED <<tickets_sold, tickets, sweepN>>
    /\ UNCHANGED Env

\* ------------------------------------------------- deadlock detection
\* the transaction that holds the row lock p is waiting for
WaitsFor(p) ==
    CASE pc[p] = "x_event" -> eventLock[tickets[tid[p]].event_id]
      [] pc[p] = "s_events" -> eventLock[NextEvent(p)]
      [] pc[p] = "s_flush" -> ticketLock[NextTicket(p)]
      [] pc[p] = "r_sched" -> ticketLock[tid[p]]
      [] OTHER -> NoProc

RECURSIVE WaitChain(_, _, _)
WaitChain(q, target, n) ==
    IF q = NoProc \/ n = 0 THEN FALSE
    ELSE IF q = target THEN TRUE
    ELSE WaitChain(WaitsFor(q), target, n - 1)

InDeadlock(p) == WaitChain(WaitsFor(p), p, Cardinality(Procs))

\* PostgreSQL aborts one transaction of a wait cycle ("deadlock detected");
\* the task's except branch rolls back and re-raises
deadlock_abort(p) ==
    /\ InDeadlock(p)
    /\ eventLock' = ReleaseEvents(p)
    /\ ticketLock' = ReleaseTickets(p)
    /\ Finish(p, "error")
    /\ UNCHANGED <<Env, dbVars, histVars>>

\* ------------------------------------------------------ storage failure
\* the positions at which a process has a transaction open
InTransaction(p) == pc[p] \in {"r_commit", "p_commit", "x_event", "s_events", "s_flush"}

\* the database fails a statement or the commit of the open transaction
\* (connection lost, statement error): nothing of the transaction becomes
\* visible, its row locks go, and the exception ends the operation
storage_failure(p) ==
    /\ InTransaction(p)
    /\ eventLock' = ReleaseEvents(p)
    /\ ticketLock' = ReleaseTickets(p)
    /\ Finish(p, "error")
    /\ UNCHANGED <<Env, dbVars, histVars>>

\* ------------------------------------------------------------------ Next
Next ==
    \/ Tick
    \/ \E p \in ApiProcs : \E u \in Users, e \in Events : api_reserve_ticket(p, u, e)
    \/ \E p \in {"r1", "r2"} : \E u \in {UserOf(p), NoUser}, e \in Events \cup {NoEvent} :
          reserve_ticket_begin(p, u, e)
    \/ \E p \in {"r1", "r2"} : reserve_ticket_commit(p)
    \/ \E p \in {"r1", "r2"} : reserve_ticket_schedule(p)
    \/ \E p \in Payers, t \in TicketIds : mark_ticket_paid_begin(p, t)
    \/ \E p \in Payers : mark_ticket_paid_commit(p)
    \/ \E p \in {"x1"}, t \in TicketIds : expire_ticket_begin(p, t)
    \/ \E p \in {"x1"} : expire_ticket_commit(p)
    \/ \E p \in {"s1"} : cleanup_select(p)
    \/ \E p \in {"s1"} : cleanup_lock_event(p)
    \/ \E p \in {"s1"} : cleanup_flush(p)
    \/ \E p \in {"x1", "s1"} : deadlock_abort(p)

Spec == Init /\ [][Next]_vars

\* ------------------------------------------- the service without Celery
\* "except ImportError: CELERY_AVAILABLE = False" in ticket_service.py: the
\* request process cannot schedule the one-shot task, so reserve_ticket ends
\* at its first commit.  Workers still run the tasks that reach them.
\* Requests name users and events that exist.
InitCore == InitCommon /\ CELERY_AVAILABLE = FALSE /\ once = FALSE

NextCore ==
    \/ Tick
    \/ \E p \in {"r1", "r2"} : \E e \in Events : reserve_ticket_begin(p, UserOf(p), e)
    \/ \E p \in {"r1", "r2"} : reserve_ticket_commit(p)
    \/ \E p \in Payers, t \in TicketIds : mark_ticket_paid_begin(p, t)
    \/ \E p \in Payers : mark_ticket_paid_commit(p)
    \/ \E p \in {"x1"}, t \in TicketIds : expire_ticket_begin(p, t)
    \/ \E p \in {"x1"} : expire_ticket_commit(p)
    \/ \E p \in {"s1"} : cleanup_select(p)
    \/ \E p \in {"s1"} : cleanup_lock_event(p)
    \/ \E p \in {"s1"} : cleanup_flush(p)
    \/ \E p \in {"x1", "s1"} : deadlock_abort(p)

SpecCore == InitCore /\ [][NextCore]_vars

\* ------------------------------- expire_ticket_task delivered repeatedly
\* Two workers run the one-shot task, for any ticket and at any time (a
\* redelivered or duplicated message, a retry); the sweep does not run.
NextOneShot ==
    \/ Tick
    \/ \E p \in {"r1"} : \E e \in Events : reserve_ticket_begin(p, UserOf(p), e)
    \/ \E p \in {"r1"} : reserve_ticket_commit(p)
    \/ \E p \in Payers, t \in TicketIds : mark_ticket_paid_begin(p, t)
    \/ \E p \in Payers : mark_ticket_paid_commit(p)
    \/ \E p \in Expirers, t \in TicketIds : expire_ticket_begin(p, t)
    \/ \E p \in Expirers : expire_ticket_commit(p)

SpecOneShot == InitCore /\ [][NextOneShot]_vars

\* ------------------------------------------------ a storm of reservations
\* Every request process makes one call of reserve_ticket, for a user that
\* exists, and keeps its outcome; nothing else runs.
InitStorm == InitCommon /\ CELERY_AVAILABLE = TRUE /\ once = TRUE

NextStorm ==
    \/ Tick
    \/ \E p \in Reservers : \E e \in Events : reserve_ticket_begin(p, UserOf(p), e)
    \/ \E p \in Reservers : reserve_ticket_commit(p)
    \/ \E p \in Reservers : reserve_ticket_schedule(p)

SpecStorm == InitStorm /\ [][NextStorm]_vars

\* ------------------------------------------- expiration by the sweep alone
\* No one-shot task is ever scheduled or delivered; celery beat starts
\* cleanup_expired_tickets every minute and two workers may run it at once.
NextSweep ==
    \/ Tick
    \/ \E p \in {"r1"} : \E e \in Events : reserve_ticket_begin(p, UserOf(p), e)
    \/ \E p \in {"r1"} : reserve_ticket_commit(p)
    \/ \E p \in Payers, t \in TicketIds : mark_ticket_paid_begin(p, t)
    \/ \E p \in Payers : mark_ticket_paid_commit(p)
    \/ \E p \in Sweepers : cleanup_select(p)
    \/ \E p \in Sweepers : cleanup_lock_event(p)
    \/ \E p \in Sweepers : cleanup_flush(p)

\* a sweep run is one uninterrupted task execution
cleanup_run(p) == cleanup_select(p) \/ cleanup_lock_event(p) \/ cleanup_flush(p)

\* beat keeps starting the sweep and every started transaction runs on to
\* its commit
SpecSweep ==
    /\ InitCore
    /\ [][NextSweep]_vars
    /\ \A p \in Sweepers : WF_vars(cleanup_run(p))
    /\ \A p \in {"r1"} : WF_vars(reserve_ticket_commit(p))
    /\ \A p \in Payers : WF_vars(mark_ticket_paid_commit(p))


\* ======================================================== properties
\* tickets of event e that hold inventory
Held(e) == {t \in TicketIds : tickets[t].event_id = e /\ tickets[t].status \in {RESERVED, PAID}}

\* C1: in every committed state every event has 0 <= tickets_sold <=
\* total_tickets, and the operations keep it so themselves: no commit is
\* ever turned down by the CHECK constraints of the events table.
C1_SoldWithinCapacity ==
    /\ \A e \in Events : 0 <= tickets_sold[e] /\ tickets_sold[e] <= total_tickets[e]
    /\ last.status # "IntegrityError"

\* an event at capacity after an expiration released a seat and a later
\* reservation took it, and a further reservation was refused
C1_Witness ==
    \E e \in Events :
        /\ tickets_sold[e] = total_tickets[e]
        /\ \E t \in TicketIds : tickets[t].event_id = e /\ tickets[t].status = EXPIRED
        /\ last.status = "EventSoldOut"

\* C2: after every commit tickets_sold equals the number of the event's
\* tickets that are Reserved or Paid.
C2_SoldEqualsHeld ==
    \A e \in Events : tickets_sold[e] = Cardinality(Held(e))

\* C3: the only status changes are (none) -> Reserved, Reserved -> Paid and
\* Reserved -> Expired; Paid and Expired are never left.
C3_LegalTransitions ==
    [][\A t \in TicketIds :
          tickets'[t].status # tickets[t].status =>
              <<tickets[t].status, tickets'[t].status>> \in
                  {<<ABSENT, RESERVED>>, <<RESERVED, PAID>>, <<RESERVED, EXPIRED>>}]_vars

C5_PaidNotSwept ==
    \A t \in TicketIds : paidN[t] >= 1 => (tickets[t].status = PAID /\ sweepN[t] = 0)

C7_ExpiredOnce ==
    \A t \in TicketIds : oneShotN[t] + sweepN[t] <= 1

\* calls of the storm that were made, that are still running, that returned
\* a ticket, that were refused
StormCalled == {p \in Reservers : pc[p] # "idle"}
StormRunning == {p \in Reservers : pc[p] \in {"r_commit", "r_sched"}}
StormReserved == {p \in Reservers : pc[p] = "reserved"}
StormSoldOut == {p \in Reservers : pc[p] = "EventSoldOut"}

\* C8: once the N calls of a storm against an event of capacity C have all
\* returned, min(N, C) of them returned a ticket, the other N - min(N, C)
\* raised EventSoldOutException, and tickets_sold = min(N, C).
C8_StormFillsCapacity ==
    \A e \in Events :
        LET N == Cardinality(StormCalled)
            C == total_tickets[e]
        IN  StormRunning = {} =>
                /\ Cardinality(StormReserved) = Min(N, C)
                /\ Cardinality(StormSoldOut) = N - Min(N, C)
                /\ tickets_sold[e] = Min(N, C)
                /\ Cardinality(Held(e)) = Min(N, C)

\* three calls against a smaller capacity all returned: some with a ticket,
\* some refused
C8_Witness ==
    /\ StormCalled = Reservers
    /\ StormRunning = {}
    /\ StormReserved # {}
    /\ StormSoldOut # {}
    /\ \E e \in Events : tickets_sold[e] = total_tickets[e]

\* C9: reserving the last ticket succeeds and leaves tickets_sold =
\* total_tickets; a reservation for a sold-out event is refused with
\* EventSoldOutException, which POST /tickets/ answers with HTTP 409.
C9_LastTicketThenSoldOut ==
    [][/\ \A p \in Reservers, e \in Events :
             (reserve_ticket_commit(p) /\ eid[p] = e
                  /\ tickets_sold[e] = total_tickets[e] - 1) =>
                 tickets_sold'[e] = total_tickets[e]
       /\ \A p \in Reservers, u \in Users, e \in Events :
             (reserve_ticket_begin(p, u, e)
                  /\ tickets_sold[e] >= total_tickets[e]) =>
                 last'.status = "EventSoldOut"
       /\ \A p \in ApiProcs, u \in Users, e \in Events :
             (api_reserve_ticket(p, u, e)
                  /\ tickets_sold[e] >= total_tickets[e]) =>
                 reserve_http_status(last'.status) = 409]_vars

\* ------------------------------------- reservations and one sweep worker
\* Users reserve and never pay; no one-shot task is delivered; the sweep's
\* runs do not overlap.
NextBackstop ==
    \/ Tick
    \/ \E p \in {"r1", "r3"} : \E e \in Events : reserve_ticket_begin(p, UserOf(p), e)
    \/ \E p \in {"r1", "r3"} : reserve_ticket_commit(p)
    \/ \E p \in {"s1"} : cleanup_select(p)
    \/ \E p \in {"s1"} : cleanup_lock_event(p)
    \/ \E p \in {"s1"} : cleanup_flush(p)

SpecBackstop == InitCore /\ [][NextBackstop]_vars

\* the sweep run of p commits in this step
cleanup_commits(p) == cleanup_flush(p) /\ pc[p] = "s_flush" /\ pc'[p] # "s_flush"

\* C11: when a sweep run commits for a sold-out event whose only holder is
\* the unpaid Reserved ticket t, past its expires_at, t is Expired and
\* tickets_sold is one less; a reservation by a user that then reads the
\* event with no holder left is not refused, and commits with a ticket.
C11_SweepFreesSeat ==
    [][/\ \A s \in Sweepers, t \in TicketIds :
             LET e == tickets[t].event_id
             IN  (/\ cleanup_commits(s)
                  /\ tickets[t].status = RESERVED
                  /\ now > tickets[t].expires_at
                  /\ Held(e) = {t}
                  /\ tickets_sold[e] = total_tickets[e]) =>
                     /\ t \in batch[s]
                     /\ tickets'[t].status = EXPIRED
                     /\ tickets_sold'[e] = tickets_sold[e] - 1
                     /\ last' = [status |-> "success", expired_count |-> 1]
       /\ \A p \in Reservers, e \in Events :
             (/\ reserve_ticket_begin(p, UserOf(p), e)
              /\ Held(e) = {}
              /\ \E t \in TicketIds : tickets[t].event_id = e /\ sweepN[t] = 1) =>
                     /\ pc'[p] = "r_commit"
                     /\ eventLock'[e] = p
       /\ \A p \in Reservers :
             reserve_ticket_commit(p) =>
                 /\ last'.status = "reserved"
                 /\ tickets_sold'[eid[p]] = tickets_sold[eid[p]] + 1]_vars

\* user A's ticket was swept on an event of capacity one, and user B now
\* holds the seat
C11_Witness ==
    \E t, u \in TicketIds :
        /\ tickets[t].status = EXPIRED /\ sweepN[t] = 1
        /\ tickets[u].status = RESERVED /\ tickets[u].event_id = tickets[t].event_id
        /\ tickets[u].user_id # tickets[t].user_id
        /\ total_tickets[tickets[t].event_id] = 1
        /\ tickets_sold[tickets[t].event_id] = 1
        /\ last.status = "reserved"

C13_PayOwnTicketsOnly ==
    [][\A p \in Payers, caller \in Users, t \in TicketIds :
          (/\ pay_for_ticket(p, caller, t)
           /\ tickets[t].status # ABSENT
           /\ tickets[t].user_id # caller) =>
              /\ pc'[p] # "p_commit"
              /\ pay_http_status(last'.status) = 403
              /\ tickets' = tickets]_vars

\* ------------------------------------------------- payments side by side
\* Two requests pay, for any ticket and at any time, while tickets are
\* reserved and the one-shot task expires them.
NextPay ==
    \/ Tick
    \/ \E p \in {"r1"} : \E e \in Events : reserve_ticket_begin(p, UserOf(p), e)
    \/ \E p \in {"r1"} : reserve_ticket_commit(p)
    \/ \E p \in DoublePayers, t \in TicketIds : mark_ticket_paid_begin(p, t)
    \/ \E p \in DoublePayers : mark_ticket_paid_commit(p)
    \/ \E p \in {"x1"}, t \in TicketIds : expire_ticket_begin(p, t)
    \/ \E p \in {"x1"} : expire_ticket_commit(p)

SpecPay == InitCore /\ [][NextPay]_vars

\* C14: a payment that reads its ticket as Paid or Expired ends with
\* InvalidStatusTransition (HTTP 409), whether or not expires_at has passed,
\* and changes no row; over any number of payments of a ticket at most one
\* commits.
C14_PayOnlyReserved ==
    [][/\ \A p \in DoublePayers, t \in TicketIds :
             (mark_ticket_paid_begin(p, t) /\ tickets[t].status \in {PAID, EXPIRED}) =>
                 /\ last'.status = "InvalidStatusTransition"
                 /\ pay_http_status(last'.status) = 409
                 /\ pc'[p] # "p_commit"
                 /\ UNCHANGED <<dbVars, histVars>>
       /\ \A t \in TicketIds : paidN'[t] <= 1]_vars

\* a ticket paid once, past its expires_at by now, whose second payment was
\* turned down for its status
C14_Witness ==
    \E t \in TicketIds :
        /\ tickets[t].status = PAID /\ paidN[t] = 1
        /\ now > tickets[t].expires_at
        /\ last.status = "InvalidStatusTransition"

\* C15: a payment that reads its ticket as Reserved with expires_at strictly
\* in the past ends with TicketExpired (HTTP 410) and changes no row: the
\* ticket is still Reserved and tickets_sold is as it was.
C15_PayRejectsOverdue ==
    [][\A p \in DoublePayers, t \in TicketIds :
          (/\ mark_ticket_paid_begin(p, t)
           /\ tickets[t].status = RESERVED
           /\ now > tickets[t].expires_at) =>
              /\ last'.status = "TicketExpired"
              /\ pay_http_status(last'.status) = 410
              /\ pc'[p] # "p_commit"
              /\ tickets'[t].status = RESERVED
              /\ UNCHANGED <<dbVars, histVars>>]_vars

\* an overdue ticket whose payment was just turned down: it is still
\* Reserved and still counted
C15_Witness ==
    \E t \in TicketIds :
        /\ tickets[t].status = RESERVED
        /\ now > tickets[t].expires_at
        /\ last.status = "TicketExpired"
        /\ tickets_sold[tickets[t].event_id] = Cardinality(Held(tickets[t].event_id))
        /\ oneShotN[t] = 0

\* C16: a payment that reads its ticket as Reserved goes on to commit
\* whenever now <= expires_at, the instant now = expires_at included, and
\* is turned down as expired exactly when now > expires_at; a payment that
\* went on commits the ticket as Paid.
C16_PayAtBoundary ==
    [][/\ \A p \in DoublePayers, t \in TicketIds :
             (mark_ticket_paid_begin(p, t) /\ tickets[t].status = RESERVED) =>
                 IF now <= tickets[t].expires_at
                 THEN pc'[p] = "p_commit" /\ tid'[p] = t /\ stamp'[p] = now
                 ELSE pc'[p] # "p_commit" /\ last'.status = "TicketExpired"
       /\ \A p \in DoublePayers :
             mark_ticket_paid_commit(p) =>
                 /\ last'.status = "paid"
                 /\ tickets'[tid[p]].status = PAID
                 /\ tickets'[tid[p]].paid_at <= tickets[tid[p]].expires_at]_vars

\* a ticket paid at the very instant of its expires_at
C16_Witness ==
    \E t \in TicketIds :
        /\ tickets[t].status = PAID
        /\ tickets[t].paid_at = tickets[t].expires_at
        /\ last.status = "paid"

\* C17: while now < expires_at a ticket is neither set to Expired nor
\* counted in a decrement: the one-shot task that reads it returns
\* 'not_yet_expired' and changes nothing, and no sweep run selects it.
C17_NoPrematureExpiry ==
    [][/\ \A p \in Expirers, t \in TicketIds :
             (/\ expire_ticket_begin(p, t)
              /\ tickets[t].status = RESERVED
              /\ now < tickets[t].expires_at) =>
                 /\ last'.status = "not_yet_expired"
                 /\ pc'[p] # "x_event"
                 /\ UNCHANGED <<dbVars, histVars>>
       /\ \A p \in Sweepers :
             cleanup_select(p) =>
                 \A t \in batch'[p] : ~(now < tickets[t].expires_at)
       /\ \A t \in TicketIds :
             (\/ tickets'[t].status = EXPIRED /\ tickets[t].status # EXPIRED
              \/ oneShotN'[t] # oneShotN[t]
              \/ sweepN'[t] # sweepN[t]) =>
                 ~(now < tickets[t].expires_at)]_vars

\* the one-shot task ran early for a ticket and left it Reserved and counted
C17_Witness ==
    \E t \in TicketIds :
        /\ tickets[t].status = RESERVED
        /\ now < tickets[t].expires_at
        /\ last.status = "not_yet_expired"
        /\ tickets_sold[tickets[t].event_id] >= 1

\* C18: the wait-for graph over the ticket-row and event-row locks never
\* has a cycle: no operation waits for a row lock held by an operation that
\* (directly or through others) waits for a row lock the first one holds.
C18_NoWaitCycle ==
    \A p \in Procs : ~InDeadlock(p)

\* the sweep run of p ends in this step, committed or rolled back
cleanup_ends(p) == pc[p] \in {"s_events", "s_flush"} /\ pc'[p] = "idle"

\* C19: when a sweep run ends, a failure over one ticket of its batch (or
\* that ticket's event) has not kept the other tickets of the batch from
\* being committed as Expired: at most one ticket of the batch is left
\* unexpired.
C19_SweepIsolatesFailures ==
    [][\A s \in Sweepers :
          cleanup_ends(s) =>
              \E f \in batch[s] :
                  \A t \in batch[s] \ {f} : tickets'[t].status = EXPIRED]_vars

\* ------------------------------------------- reservations, broker failing
\* Requests reserve while the message broker is reachable at some times and
\* not at others; the sweep runs.
NextBroker ==
    \/ Tick
    \/ \E p \in {"r1", "r2"} : \E e \in Events : reserve_ticket_begin(p, UserOf(p), e)
    \/ \E p \in {"r1", "r2"} : reserve_ticket_commit(p)
    \/ \E p \in {"r1", "r2"} : reserve_ticket_schedule(p)
    \/ \E p \in {"r1", "r2"} : reserve_ticket_schedule_raises(p)
    \/ \E p \in {"s1"} : cleanup_select(p)
    \/ \E p \in {"s1"} : cleanup_lock_event(p)
    \/ \E p \in {"s1"} : cleanup_flush(p)

SpecBroker == Init /\ [][NextBroker]_vars

\* C20: a reserve_ticket call whose reservation transaction has committed
\* returns the reserved ticket to its caller (HTTP 201), whether or not the
\* one-shot expiration could be scheduled.
C20_SchedulingFailureHidden ==
    [][\A p \in Reservers :
          (pc[p] = "r_sched" /\ pc'[p] # "r_sched") =>
              /\ last'.status = "reserved"
              /\ reserve_http_status(last'.status) = 201]_vars

\* ------------------------------------------- operations, storage failing
\* Every operation runs while the database may fail any open transaction.
NextFaults ==
    \/ Tick
    \/ \E p \in {"r1"} : \E e \in Events : reserve_ticket_begin(p, UserOf(p), e)
    \/ \E p \in {"r1"} : reserve_ticket_commit(p)
    \/ \E p \in Payers, t \in TicketIds : mark_ticket_paid_begin(p, t)
    \/ \E p \in Payers : mark_ticket_paid_commit(p)
    \/ \E p \in {"x1"}, t \in TicketIds : expire_ticket_begin(p, t)
    \/ \E p \in {"x1"} : expire_ticket_commit(p)
    \/ \E p \in {"s1"} : cleanup_select(p)
    \/ \E p \in {"s1"} : cleanup_lock_event(p)
    \/ \E p \in {"s1"} : cleanup_flush(p)
    \/ \E p \in {"x1", "s1"} : deadlock_abort(p)
    \/ \E p \in {"r1", "p1", "x1", "s1"} : storage_failure(p)

SpecFaults == InitCore /\ [][NextFaults]_vars

\* tickets of e inserted as Reserved, and tickets of e counted by an
\* expiration that commits, in the step at hand
Born(e) ==
    {t \in TicketIds : /\ tickets[t].status = ABSENT
                       /\ tickets'[t].status = RESERVED
                       /\ tickets'[t].event_id = e}
Released(e) ==
    {t \in TicketIds : /\ tickets[t].event_id = e
                       /\ oneShotN'[t] + sweepN'[t] > oneShotN[t] + sweepN[t]}

\* C21: counter and ledger change in the same commit or not at all.  In
\* every step an event's tickets_sold goes up by exactly the tickets
\* inserted for it in that step and is lowered exactly for the tickets an
\* expiration counts in that step, each of which is Expired after the step;
\* no ticket becomes Reserved or Expired in a step that does not write the
\* counter accordingly; and a transaction the database fails leaves
\* tickets and events as they were.
C21_CounterAndLedgerAtomic ==
    [][/\ \A e \in Events :
             /\ Cardinality(Born(e)) <= 1
             /\ Born(e) = {} \/ Released(e) = {}
             /\ tickets_sold'[e] =
                    IF Born(e) # {} THEN tickets_sold[e] + 1
                    ELSE IF Released(e) # {}
                    THEN decrement(tickets_sold[e], Cardinality(Released(e)))
                    ELSE tickets_sold[e]
             /\ \A t \in Released(e) : tickets'[t].status = EXPIRED
       /\ \A t \in TicketIds :
             (tickets'[t].status = EXPIRED /\ tickets[t].status # EXPIRED) =>
                 t \in Released(tickets[t].event_id)
       /\ \A t \in TicketIds :
             (tickets'[t].status = RESERVED /\ tickets[t].status # RESERVED) =>
                 t \in Born(tickets'[t].event_id)
       /\ \A p \in Procs :
             (storage_failure(p) \/ deadlock_abort(p)) => UNCHANGED <<dbVars, histVars>>]_vars

\* an expiration was failed by the database with its ticket locked: the
\* ticket is still Reserved and still counted, after another ticket's
\* expiration had committed both of its writes
C21_Witness ==
    \E t, u \in TicketIds :
        /\ tickets[t].status = RESERVED /\ now >= tickets[t].expires_at
        /\ tickets[u].status = EXPIRED
        /\ last.status = "error"
        /\ tickets_sold[tickets[t].event_id] = Cardinality(Held(tickets[t].event_id))

\* ------------------------------------------ requests of every kind
\* Requests reserve for users and events that exist or do not, while the
\* one-shot task frees seats.
NextReserve ==
    \/ Tick
    \/ \E p \in {"r1", "r2"} : \E u \in {UserOf(p), NoUser}, e \in Events \cup {NoEvent} :
          reserve_ticket_begin(p, u, e)
    \/ \E p \in {"r1", "r2"} : reserve_ticket_commit(p)
    \/ \E p \in {"x1"}, t \in TicketIds : expire_ticket_begin(p, t)
    \/ \E p \in {"x1"} : expire_ticket_commit(p)

SpecReserve == InitCore /\ [][NextReserve]_vars

\* the exception reserve_ticket is to raise for user u and event e, "none"
\* when it is to go on
reserve_refusal(u, e) ==
    IF e \notin Events THEN "EventNotFound"
    ELSE IF u \notin Users THEN "UserNotFound"
    ELSE IF tickets_sold[e] >= total_tickets[e] THEN "EventSoldOut"
    ELSE "none"

C24_PaidAtIffPaid ==
    [][\A t \in TicketIds :
          /\ (tickets'[t].paid_at # NoTime) <=> (tickets'[t].status = PAID)
          /\ tickets'[t].paid_at # tickets[t].paid_at =>
                /\ tickets[t].paid_at = NoTime
                /\ tickets[t].status = RESERVED
                /\ tickets'[t].status = PAID]_vars

\* C25: a ticket carries an expiration_task_id only while its status is
\* Reserved: a Paid or Expired ticket has none.
C25_HandleOnlyWhileReserved ==
    \A t \in TicketIds :
        tickets[t].expiration_task_id # NoTask => tickets[t].status = RESERVED

\* --------------------------------- payment against the scheduled one-shot
\* The broker delivers expire_ticket_task for a ticket reserve_ticket
\* scheduled it for.  A revoke is a request to the workers: a task whose id
\* is in revoked may be dropped or may still run.
expire_ticket_task(p, t) ==
    /\ tickets[t].expiration_task_id # NoTask
    /\ expire_ticket_begin(p, t)

NextCancel ==
    \/ Tick
    \/ \E p \in {"r1"} : \E e \in Events : reserve_ticket_begin(p, UserOf(p), e)
    \/ \E p \in {"r1"} : reserve_ticket_commit(p)
    \/ \E p \in {"r1"} : reserve_ticket_schedule(p)
    \/ \E p \in Payers, t \in TicketIds : mark_ticket_paid_begin(p, t)
    \/ \E p \in Payers : mark_ticket_paid_commit(p)
    \/ \E p \in {"x1"}, t \in TicketIds : expire_ticket_task(p, t)
    \/ \E p \in {"x1"} : expire_ticket_commit(p)

SpecCancel == Init /\ [][NextCancel]_vars

\* C26: a one-shot task that runs for a ticket it reads as Paid, whether or
\* not its cancellation was sent, returns 'skipped' and leaves the ticket
\* Paid and every row, tickets_sold included, as it was; sending the
\* cancellation changes no row either.
C26_CancelAdvisory ==
    [][/\ \A p \in Expirers, t \in TicketIds :
             (expire_ticket_task(p, t) /\ tickets[t].status = PAID) =>
                 /\ last'.status = "skipped"
                 /\ pc'[p] # "x_event"
                 /\ tickets'[t].status = PAID
                 /\ UNCHANGED <<dbVars, histVars>>
       /\ \A t \in TicketIds :
             (t \in revoked' /\ t \notin revoked) =>
                 /\ tickets'[t].status = PAID
                 /\ UNCHANGED <<tickets_sold, total_tickets>>]_vars

\* the cancellation of a paid ticket's task was sent, the task ran all the
\* same past the ticket's expires_at and skipped it; the seat is still sold
C26_Witness ==
    \E t \in TicketIds :
        /\ tickets[t].status = PAID /\ tickets[t].expiration_task_id \in revoked
        /\ now > tickets[t].expires_at
        /\ last.status = "skipped"
        /\ oneShotN[t] = 0
        /\ tickets_sold[tickets[t].event_id] = Cardinality(Held(tickets[t].event_id))
        /\ tickets_sold[tickets[t].event_id] >= 1

\* C27: a sweep run that starts when no ticket is Reserved with expires_at
\* earlier than the current time returns status 'success' with
\* expired_count 0, takes no lock and changes no ticket and no event.
C27_EmptySweepNoOp ==
    [][\A p \in Sweepers :
          (/\ cleanup_select(p)
           /\ \A t \in TicketIds :
                 ~(tickets[t].status = RESERVED /\ tickets[t].expires_at < now)) =>
              /\ last' = [status |-> "success", expired_count |-> 0]
              /\ pc'[p] = "idle"
              /\ batch'[p] = {}
              /\ UNCHANGED <<dbVars, eventLock, ticketLock, histVars>>]_vars

\* a sweep ran at the very instant a reserved ticket's window closed and
\* found nothing to expire: the ticket is still Reserved and sold
C27_Witness ==
    /\ last = [status |-> "success", expired_count |-> 0]
    /\ \E t \in TicketIds :
          /\ tickets[t].status = RESERVED /\ tickets[t].expires_at = now
          /\ sweepN[t] = 0
          /\ tickets_sold[tickets[t].event_id] = Cardinality(Held(tickets[t].event_id))

\* ------------------------------------------------- PUT /events/{event_id}
\* (mutation: the UPDATE writes every column of the session's object)
flush_event_whole_row(sold_now, obj) == obj

\* db.flush() of the updated Event: the UPDATE sets the changed attribute,
\* total_tickets, and leaves the row's other columns as they stand
flush_event(sold_now, obj) ==
    [total_tickets |-> obj.total_tickets, tickets_sold |-> sold_now]

\* EventService.update_event with total_tickets = n in the EventUpdate body
\* (gt=0 by the schema): EventRepository.update reads the event with a
\* plain SELECT and sets every attribute whose value is not None.
update_event_read(p, e, n) ==
    /\ pc[p] = "idle"
    /\ loaded' = [loaded EXCEPT ![p] = [total_tickets |-> n, tickets_sold |-> tickets_sold[e]]]
    /\ eid' = [eid EXCEPT ![p] = e]
    /\ pc' = [pc EXCEPT ![p] = "u_flush"]
    /\ UNCHANGED <<now, CELERY_AVAILABLE, once, revoked, amount, request, dbVars, eventLock,
                   ticketLock, tid, uid, stamp, batch, last, histVars>>

\* db.flush(), which sends the UPDATE, waiting for the row's lock and
\* checked against the table's constraints, then refresh and the service's
\* commit
update_event_flush(p) ==
    /\ pc[p] = "u_flush"
    /\ eventLock[eid[p]] = NoProc
    /\ LET e == eid[p]
           row == flush_event(tickets_sold[e], loaded[p])
       IN  IF check_constraints(row.tickets_sold, row.total_tickets)
           THEN /\ total_tickets' = [total_tickets EXCEPT ![e] = row.total_tickets]
                /\ tickets_sold' = [tickets_sold EXCEPT ![e] = row.tickets_sold]
                /\ Finish(p, "updated")
           ELSE /\ Finish(p, "IntegrityError")
                /\ UNCHANGED <<total_tickets, tickets_sold>>
    /\ loaded' = [loaded EXCEPT ![p] = NoObject]
    /\ UNCHANGED <<now, CELERY_AVAILABLE, once, revoked, amount, request, tickets, eventLock,
                   ticketLock, histVars>>

NextEvents ==
    \/ Tick
    \/ \E p \in {"r1"} : \E e \in Events : reserve_ticket_begin(p, UserOf(p), e)
    \/ \E p \in {"r1"} : reserve_ticket_commit(p)
    \/ \E p \in {"x1"}, t \in TicketIds : expire_ticket_begin(p, t)
    \/ \E p \in {"x1"} : expire_ticket_commit(p)
    \/ \E p \in ApiProcs, e \in Events, n \in 1..MaxTotal : update_event_read(p, e, n)
    \/ \E p \in ApiProcs : update_event_flush(p)

SpecEvents == InitCore /\ [][NextEvents]_vars

\* C28: no step changes the total_tickets of an event, the event update
\* included.
C28_TotalTicketsImmutable ==
    [][total_tickets' = total_tickets]_vars

\* ------------------------------------ EventRepository, the counter calls
\* the largest amount passed: more than any counter can hold
MaxAmount == MaxTotal + 1

\* EventRepository.increment_tickets_sold(event_id, amount): False when the
\* event is not found; else the counter is set and flushed, the UPDATE
\* waiting for the row's lock and checked against the table's constraints.
increment_tickets_sold(p, e, n) ==
    /\ pc[p] = "idle"
    /\ amount' = n
    /\ IF e \notin Events
       THEN Finish(p, "False") /\ UNCHANGED tickets_sold
       ELSE /\ eventLock[e] = NoProc
            /\ IF check_constraints(increment(tickets_sold[e], n), total_tickets[e])
               THEN /\ tickets_sold' = [tickets_sold EXCEPT ![e] = increment(@, n)]
                    /\ Finish(p, "incremented")
               ELSE /\ Finish(p, "IntegrityError")
                    /\ UNCHANGED tickets_sold
    /\ UNCHANGED <<now, CELERY_AVAILABLE, once, revoked, request, loaded, total_tickets, tickets,
                   eventLock, ticketLock, histVars>>

\* EventRepository.decrement_tickets_sold(event_id, amount)
decrement_tickets_sold(p, e, n) ==
    /\ pc[p] = "idle"
    /\ amount' = n
    /\ IF e \notin Events
       THEN Finish(p, "False") /\ UNCHANGED tickets_sold
       ELSE /\ eventLock[e] = NoProc
            /\ IF check_constraints(decrement(tickets_sold[e], n), total_tickets[e])
               THEN /\ tickets_sold' = [tickets_sold EXCEPT ![e] = decrement(@, n)]
                    /\ Finish(p, "decremented")
               ELSE /\ Finish(p, "IntegrityError")
                    /\ UNCHANGED tickets_sold
    /\ UNCHANGED <<now, CELERY_AVAILABLE, once, revoked, request, loaded, total_tickets, tickets,
                   eventLock, ticketLock, histVars>>

NextCounter ==
    \/ Tick
    \/ \E p \in {"r1"} : \E e \in Events : reserve_ticket_begin(p, UserOf(p), e)
    \/ \E p \in {"r1"} : reserve_ticket_commit(p)
    \/ \E p \in ApiProcs, e \in Events \cup {NoEvent}, n \in 0..MaxAmount :
          increment_tickets_sold(p, e, n)
    \/ \E p \in ApiProcs, e \in Events \cup {NoEvent}, n \in 0..MaxAmount :
          decrement_tickets_sold(p, e, n)

SpecCounter == InitCore /\ [][NextCounter]_vars

NoStatus == "any"

\* TicketRepository.get_by_user: WHERE user_id = :user_id, and
\* AND status = :status when a status is given
get_by_user(u, s) ==
    {t \in TicketIds : /\ tickets[t].status # ABSENT
                       /\ tickets[t].user_id = u
                       /\ (s = NoStatus \/ tickets[t].status = s)}

\* GET /tickets/user/{user_id}: the listing the route returns.  The route
\* has no authentication dependency; user_id comes from the path.
get_user_tickets(p, u, s) ==
    /\ pc[p] = "idle"
    /\ batch' = [batch EXCEPT ![p] = get_by_user(u, s)]
    /\ last' = [status |-> "tickets", expired_count |-> 0]
    /\ UNCHANGED <<Env, dbVars, eventLock, ticketLock, pc, tid, eid, uid, stamp, histVars>>

\* the responses of GET /tickets/{ticket_id}
get_http_status(outcome) ==
    CASE outcome = "ticket" -> 200
      [] outcome = "TicketNotFound" -> 404
      [] OTHER -> 500

\* GET /tickets/{ticket_id}: get_ticket_by_id(ticket_id), 404 when there is
\* no such ticket, the ticket otherwise.  The route has no authentication
\* dependency: who the caller is does not reach it.
get_ticket(p, caller, t) ==
    /\ pc[p] = "idle"
    /\ Finish(p, IF tickets[t].status = ABSENT THEN "TicketNotFound" ELSE "ticket")
    /\ UNCHANGED <<Env, dbVars, eventLock, ticketLock, histVars>>

NextReads ==
    \/ Tick
    \/ \E p \in {"r1", "r3"} : \E e \in Events : reserve_ticket_begin(p, UserOf(p), e)
    \/ \E p \in {"r1", "r3"} : reserve_ticket_commit(p)
    \/ \E p \in {"x1"}, t \in TicketIds : expire_ticket_begin(p, t)
    \/ \E p \in {"x1"} : expire_ticket_commit(p)
    \/ \E p \in ApiProcs, u \in Users, s \in {NoStatus, RESERVED, PAID, EXPIRED} :
          get_user_tickets(p, u, s)
    \/ \E p \in ApiProcs, caller \in Users, t \in TicketIds : get_ticket(p, caller, t)

SpecReads == InitCore /\ [][NextReads]_vars

\* C30: the listing for user u, with or without a status s, holds only
\* tickets whose user_id is u (and whose status is s), and a get-ticket
\* request for an existing ticket by a caller who is not its user is
\* answered 403.
C30_ReadsIsolated ==
    [][/\ \A p \in ApiProcs, u \in Users, s \in {NoStatus, RESERVED, PAID, EXPIRED} :
             get_user_tickets(p, u, s) =>
                 \A t \in batch'[p] :
                     /\ tickets[t].user_id = u
                     /\ s # NoStatus => tickets[t].status = s
       /\ \A p \in ApiProcs, caller \in Users, t \in TicketIds :
             (/\ get_ticket(p, caller, t)
              /\ tickets[t].status # ABSENT
              /\ tickets[t].user_id # caller) =>
                 get_http_status(last'.status) = 403]_vars

\* C31: whenever the one-shot task or the sweep lowers an event's
\* tickets_sold for k tickets, the counter is at least k beforehand: the
\* floor at 0 never changes the result.
C31_ClampNeverExercised ==
    [][\A e \in Events :
          Released(e) # {} =>
              /\ tickets_sold[e] >= Cardinality(Released(e))
              /\ tickets_sold'[e] = tickets_sold[e] - Cardinality(Released(e))]_vars

\* --------------------------------------------- expire_ticket_task, retried
\* "max_retries=3" of the task decorator
max_retries == 3

\* "self.retry(exc=exc, countdown=60)": the delay of the retry that follows
\* n earlier retries
retry_countdown(n) == 60

\* one run of the task: a first run for any ticket, a retry for the ticket
\* of the request; a task that has given up runs no more
expire_ticket_run(p, t) ==
    /\ ~request[p].failed
    /\ request[p].ticket_id \in {NoTicket, t}
    /\ expire_ticket_begin(p, t)

\* _expire_ticket_async raises with its transaction open ("except
\* Exception: rollback; raise") and expire_ticket_task answers with
\* self.retry(countdown=60), which queues the task again while
\* request.retries < max_retries and lets the exception go otherwise.
expire_ticket_retry(p) ==
    /\ pc[p] = "x_event"
    /\ eventLock' = ReleaseEvents(p)
    /\ ticketLock' = ReleaseTickets(p)
    /\ IF Len(request[p].delays) < max_retries
       THEN /\ request' = [request EXCEPT ![p] =
                              [ticket_id |-> tid[p],
                               delays |-> Append(@.delays, retry_countdown(Len(@.delays))),
                               failed |-> FALSE]]
            /\ Finish(p, "retry")
       ELSE /\ request' = [request EXCEPT ![p].ticket_id = tid[p], ![p].failed = TRUE]
            /\ Finish(p, "failure")
    /\ UNCHANGED <<now, CELERY_AVAILABLE, once, revoked, amount, loaded, dbVars, histVars>>

NextRetry ==
    \/ Tick
    \/ \E p \in {"r1"} : \E e \in Events : reserve_ticket_begin(p, UserOf(p), e)
    \/ \E p \in {"r1"} : reserve_ticket_commit(p)
    \/ \E p \in {"x1"}, t \in TicketIds : expire_ticket_run(p, t)
    \/ \E p \in {"x1"} : expire_ticket_commit(p)
    \/ \E p \in {"x1"} : expire_ticket_retry(p)

SpecRetry == InitCore /\ [][NextRetry]_vars

\* C32: a failing one-shot task is retried at most max_retries times, each
\* retry after at least twice the delay of the one before, and then stops;
\* every failed run is rolled back, and the run that succeeds after them
\* sets the ticket Expired and lowers tickets_sold exactly once.
C32_RetryBoundedBackoff ==
    [][/\ \A p \in Expirers :
             \A i \in 2..Len(request'[p].delays) :
                 request'[p].delays[i] >= 2 * request'[p].delays[i - 1]
       /\ \A p \in Expirers :
             /\ Len(request'[p].delays) <= max_retries
             /\ expire_ticket_retry(p) => UNCHANGED <<dbVars, histVars>>
             /\ request[p].failed => (pc'[p] = "idle" /\ request'[p] = request[p])
             /\ expire_ticket_commit(p) =>
                   /\ tickets'[tid[p]].status = EXPIRED
                   /\ oneShotN'[tid[p]] = 1
                   /\ tickets_sold'[tickets[tid[p]].event_id] =
                          tickets_sold[tickets[tid[p]].event_id] - 1]_vars

\* C33: a one-shot task run for a ticket id that has no row returns
\* 'not_found'; it raises nothing, is not retried, takes no lock and
\* changes no ticket and no event.
C33_ExpireNotFound ==
    [][\A p \in Expirers, t \in TicketIds :
          (expire_ticket_run(p, t) /\ tickets[t].status = ABSENT) =>
              /\ last'.status = "not_found"
              /\ pc'[p] = "idle"
              /\ request' = request
              /\ UNCHANGED <<dbVars, eventLock, ticketLock, histVars>>]_vars

\* a task run for an id without a row returned 'not_found' while another
\* ticket stood reserved and sold
C33_Witness ==
    /\ last.status = "not_found"
    /\ \E t, o \in TicketIds :
          /\ tickets[t].status = ABSENT
          /\ tickets[o].status = RESERVED
          /\ tickets_sold[tickets[o].event_id] = 1
    /\ \A p \in Expirers : request[p].delays = <<>> /\ ~request[p].failed

\* ------------------------------------ row locks on the paths that give up
\* The refusals and early returns, taken with the row lock they were
\* decided under still held: the lock goes when the session is closed.
Refusals == {"UserNotFound", "EventSoldOut", "InvalidStatusTransition", "TicketExpired"}
EarlyReturns == {"skipped", "not_yet_expired"}

\* reserve_ticket raises UserNotFound or EventSoldOut after its
\* SELECT ... FOR UPDATE of the event
reserve_ticket_refused(p, u, e) ==
    /\ pc[p] = "idle"
    /\ e \in Events
    /\ reserve_can_lock(e)
    /\ reserve_refusal(u, e) \in Refusals
    /\ eventLock' = [eventLock EXCEPT ![e] = p]
    /\ pc' = [pc EXCEPT ![p] = reserve_refusal(u, e)]
    /\ UNCHANGED <<Env, dbVars, ticketLock, tid, eid, uid, stamp, batch, last, histVars>>

\* mark_ticket_paid raises InvalidStatusTransition or TicketExpired after
\* get_by_id_for_update
mark_ticket_paid_refused(p, t) ==
    /\ pc[p] = "idle"
    /\ tickets[t].status # ABSENT
    /\ get_by_id_for_update(t)
    /\ ~pay_status_ok(tickets[t]) \/ is_expired(tickets[t], now)
    /\ ticketLock' = [ticketLock EXCEPT ![t] = p]
    /\ pc' = [pc EXCEPT ![p] = IF ~pay_status_ok(tickets[t])
                               THEN "InvalidStatusTransition" ELSE "TicketExpired"]
    /\ UNCHANGED <<Env, dbVars, eventLock, tid, eid, uid, stamp, batch, last, histVars>>

\* the get_db dependency ends the request: the session is closed, its
\* transaction rolled back and its row locks released
get_db_close(p) ==
    /\ pc[p] \in Refusals
    /\ eventLock' = ReleaseEvents(p)
    /\ ticketLock' = ReleaseTickets(p)
    /\ Finish(p, pc[p])
    /\ UNCHANGED <<Env, dbVars, histVars>>

\* _expire_ticket_async returns 'skipped' or 'not_yet_expired' after its
\* SELECT ... FOR UPDATE of the ticket
expire_ticket_returns(p, t) ==
    /\ pc[p] = "idle"
    /\ ticket_found(tickets[t])
    /\ expire_can_lock(t)
    /\ ~still_reserved(tickets[t]) \/ not_yet_expired(tickets[t], now)
    /\ ticketLock' = [ticketLock EXCEPT ![t] = p]
    /\ pc' = [pc EXCEPT ![p] = IF ~still_reserved(tickets[t])
                               THEN "skipped" ELSE "not_yet_expired"]
    /\ UNCHANGED <<Env, dbVars, eventLock, tid, eid, uid, stamp, batch, last, histVars>>

\* "async with session_maker() as db" is left by the return: the session is
\* closed, and engine.dispose() follows
task_session_close(p) ==
    /\ pc[p] \in EarlyReturns
    /\ eventLock' = ReleaseEvents(p)
    /\ ticketLock' = ReleaseTickets(p)
    /\ Finish(p, pc[p])
    /\ UNCHANGED <<Env, dbVars, histVars>>

NextLocks ==
    \/ Tick
    \/ \E p \in {"r1"} : \E u \in {UserOf(p), NoUser}, e \in Events :
          reserve_ticket_begin(p, u, e) /\ pc'[p] = "r_commit"
    \/ \E p \in {"r1"} : \E u \in {UserOf(p), NoUser}, e \in Events :
          reserve_ticket_refused(p, u, e)
    \/ \E p \in {"r1"} : reserve_ticket_commit(p)
    \/ \E p \in Payers, t \in TicketIds : mark_ticket_paid_begin(p, t) /\ pc'[p] = "p_commit"
    \/ \E p \in Payers, t \in TicketIds : mark_ticket_paid_refused(p, t)
    \/ \E p \in Payers : mark_ticket_paid_commit(p)
    \/ \E p \in {"r1"} \cup Payers : get_db_close(p)
    \/ \E p \in {"x1"}, t \in TicketIds : expire_ticket_begin(p, t) /\ pc'[p] = "x_event"
    \/ \E p \in {"x1"}, t \in TicketIds : expire_ticket_returns(p, t)
    \/ \E p \in {"x1"} : expire_ticket_commit(p)
    \/ \E p \in {"x1"} : task_session_close(p)
    \/ \E p \in {"s1"} : cleanup_select(p)
    \/ \E p \in {"s1"} : cleanup_lock_event(p)
    \/ \E p \in {"s1"} : cleanup_flush(p)
    \/ \E p \in {"x1", "s1"} : deadlock_abort(p)

\* an event with a single seat: a sold-out refusal, a ticket and its
\* successors one at a time
InitLocks == InitCore /\ total_tickets = [e \in Events |-> 1]

\* Every started transaction runs on: its commit or close is not put off
\* for ever, a statement waiting for a row lock gets it when the lock keeps
\* coming free (PostgreSQL queues the waiters), and the deadlock detector
\* aborts a transaction of a wait cycle.
SpecLocks ==
    /\ InitLocks
    /\ [][NextLocks]_vars
    /\ \A p \in {"r1"} : WF_vars(reserve_ticket_commit(p))
    /\ \A p \in Payers : WF_vars(mark_ticket_paid_commit(p))
    /\ \A p \in {"r1"} \cup Payers : WF_vars(get_db_close(p))
    /\ \A p \in {"x1"} : SF_vars(expire_ticket_commit(p)) /\ WF_vars(task_session_close(p))
    /\ \A p \in {"s1"} : SF_vars(cleanup_lock_event(p)) /\ SF_vars(cleanup_flush(p))
    /\ \A p \in {"x1", "s1"} : WF_vars(deadlock_abort(p))

\* C34: a process that holds a row lock, taken by reserve_ticket,
\* mark_ticket_paid, the one-shot task or the sweep, on a path that commits
\* or on one that ends in a refusal or an early return, comes to hold none:
\* every lock held is released in the end.
C34_LocksReleased ==
    \A p \in {"r1", "p1", "x1", "s1"} :
        (HeldEvents(p) # {} \/ HeldTickets(p) # {}) ~> (HeldEvents(p) = {} /\ HeldTickets(p) = {})

\* a reservation refused as sold out still holds the event's row lock
\* while a payment refused as expired holds its ticket's
C34_Witness ==
    \E e \in Events, t \in TicketIds :
        /\ pc["r1"] = "EventSoldOut" /\ eventLock[e] = "r1"
        /\ pc["p1"] = "TicketExpired" /\ ticketLock[t] = "p1"

NextFollowUp ==
    \/ Tick
    \/ \E p \in {"r1"} : \E e \in Events : reserve_ticket_begin(p, UserOf(p), e)
    \/ \E p \in {"r1"} : reserve_ticket_commit(p)
    \/ \E p \in {"r1"} : reserve_ticket_schedule(p)
    \/ \E p \in Payers, t \in TicketIds : mark_ticket_paid_begin(p, t)
    \/ \E p \in Payers : mark_ticket_paid_commit(p)
    \/ \E p \in {"x1"}, t \in TicketIds : expire_ticket_begin(p, t)
    \/ \E p \in {"x1"} : expire_ticket_commit(p)
    \/ \E p \in {"s1"} : cleanup_select(p)
    \/ \E p \in {"s1"} : cleanup_lock_event(p)
    \/ \E p \in {"s1"} : cleanup_flush(p)
    \/ \E p \in {"x1", "s1"} : deadlock_abort(p)

SpecFollowUp == Init /\ [][NextFollowUp]_vars

\* C36: the follow-up of reserve_ticket sets the expiration_task_id of its
\* ticket and nothing else: the ticket's status and paid_at stay what the
\* latest commit made them, whether a payment, a one-shot expiration or a
\* sweep committed since the reservation, and no other ticket, tickets_sold
\* or total_tickets changes.
C36_FollowUpFrame ==
    [][\A p \in Reservers :
          reserve_ticket_schedule(p) =>
              /\ tickets'[tid[p]].expiration_task_id # NoTask
              /\ tickets'[tid[p]].status = tickets[tid[p]].status
              /\ tickets'[tid[p]].paid_at = tickets[tid[p]].paid_at
              /\ tickets'[tid[p]].expires_at = tickets[tid[p]].expires_at
              /\ tickets'[tid[p]].user_id = tickets[tid[p]].user_id
              /\ tickets'[tid[p]].event_id = tickets[tid[p]].event_id
              /\ \A o \in TicketIds \ {tid[p]} : tickets'[o] = tickets[o]
              /\ UNCHANGED <<tickets_sold, total_tickets, histVars>>]_vars

\* a ticket paid before its handle was stored (no cancellation was sent
\* for it) carries the handle and is still Paid with its paid_at, and
\* another expired before its handle was stored and is still Expired
C36_Witness ==
    \E t, o \in TicketIds :
        /\ tickets[t].status = PAID /\ tickets[t].paid_at # NoTime
        /\ tickets[t].expiration_task_id # NoTask
        /\ tickets[t].expiration_task_id \notin revoked
        /\ tickets[o].status = EXPIRED /\ tickets[o].expiration_task_id # NoTask
        /\ sweepN[o] + oneShotN[o] = 1
        /\ last.status = "reserved"
        /\ tickets_sold[tickets[t].event_id] = Cardinality(Held(tickets[t].event_id))

\* C37: the event update never changes tickets_sold: neither its unlocked
\* read nor its write changes the counter or any ticket, so an increment
\* or decrement committed between the read and the write stays in place.
C37_UpdateKeepsCounter ==
    [][\A p \in ApiProcs :
          /\ (\E e \in Events, n \in 1..MaxTotal : update_event_read(p, e, n)) =>
                UNCHANGED <<dbVars, histVars>>
          /\ update_event_flush(p) =>
                /\ tickets_sold' = tickets_sold
                /\ tickets' = tickets
                /\ UNCHANGED histVars
                /\ \A e \in Events : tickets_sold'[e] <= total_tickets'[e]]_vars

\* an update holds an Event object read before a reservation committed:
\* its tickets_sold is behind the row's, and its write can go ahead
C37_Witness ==
    \E p \in ApiProcs :
        /\ pc[p] = "u_flush"
        /\ eventLock[eid[p]] = NoProc
        /\ loaded[p].tickets_sold < tickets_sold[eid[p]]
        /\ loaded[p].total_tickets # total_tickets[eid[p]]
        /\ loaded[p].total_tickets >= tickets_sold[eid[p]]

\* a ticket that is Reserved past its expires_at with no payment under way
Stale(t) ==
    /\ tickets[t].status = RESERVED
    /\ tickets[t].expires_at # NoTime
    /\ now > tickets[t].expires_at
    /\ \A p \in Payers : ~(pc[p] = "p_commit" /\ tid[p] = t)

\* C10: by the sweep alone every stale ticket ends up Expired for good with
\* its seat released once, so that tickets_sold is again the number of
\* tickets that hold a seat.
C10_SweepReleasesOnce ==
    \A t \in TicketIds :
        [](Stale(t) =>
              <>[](/\ tickets[t].status = EXPIRED
                   /\ tickets_sold[tickets[t].event_id] =
                          Cardinality(Held(tickets[t].event_id))))

====
